---- MODULE Spec2Model ----
(***************************************************************************)
(* A model of the ASNIP plugin (src/src/asnip/asnip.py): the sensor        *)
(* configuration loader, the collector (_get_sensor_data), the log store,  *)
(* the broadcast and queue-processor workers, the receiver and start/stop. *)
(***************************************************************************)
EXTENDS Integers, Sequences, FiniteSets, TLC

\* ------------------------------------------------------------------ bounds
\* Longest "sensors" list of a configuration document that Init enumerates.
MaxSensors == 2

\* ------------------------------------------------------------- Python values
\* dict.get on a key the mapping does not hold.
NoKey == "<nokey>"
\* Python's None.
None == "None"

\* An empty dict.
EmptyMap == [x \in {} |-> 0]

\* ------------------------------------------------------------ the registry
\* The keys of self.sensor_reader_map.
sensor_reader_map ==
  { "simulated_temperature", "simulated_humidity", "random_value",
    "static_value", "custom_script",
    "bme280_temperature", "bme280_humidity", "bme280_pressure" }

\* conf_type.startswith("bme280_"), over the type tags the model uses.
StartsWithBme280(t) ==
  t \in {"bme280_temperature", "bme280_humidity", "bme280_pressure"}

\* --------------------------------------------------- configuration document
\* One entry of the "sensors" list: a mapping with optional keys, or a JSON
\* value that is no mapping (a string, a number).
Conf(n, t, e) == [kind |-> "mapping", name |-> n, type |-> t, enabled |-> e]
NonMappingEntry == [kind |-> "scalar", name |-> NoKey, type |-> NoKey, enabled |-> NoKey]

\* The entries the enumerated documents draw from: every name shape (two
\* names, the empty name, no name key), every type shape (registered, hardware
\* backed, unregistered, no type key) and every enabled shape (true, false, no
\* key), and a value that is no mapping.
SensorEntries ==
  { Conf("a", "static_value", "true"), Conf("a", "static_value", "false"),
    Conf("a", "static_value", NoKey), Conf("b", "static_value", "true"),
    Conf("b", "custom_script", "false"), Conf("a", "bme280_humidity", "true"),
    Conf("b", "bme280_humidity", "false"), Conf("a", "bogus", "true"),
    Conf("a", NoKey, "true"), Conf("", "static_value", "true"),
    Conf(NoKey, "static_value", "true"), Conf(NoKey, "static_value", "false"),
    NonMappingEntry }

\* Sequences over S of length at most n.
SeqUpTo(S, n) == UNION { [1..k -> S] : k \in 0..n }

\* The states of the file at sensor_config_file_path.
AbsentFile == [kind |-> "absent", sensors |-> << >>]
MalformedFile == [kind |-> "malformed", sensors |-> << >>]
NoSensorsFile == [kind |-> "nosensors", sensors |-> << >>]
Doc(s) == [kind |-> "doc", sensors |-> s]

\* The document _create_default_sensor_config writes.
default_config ==
  Doc(<< Conf("cpu_temp_sim", "simulated_temperature", "true"),
         Conf("room_humidity_sim", "simulated_humidity", "true"),
         Conf("random_metric", "random_value", "true"),
         Conf("device_status", "static_value", "true"),
         Conf("custom_script_output", "custom_script", "false"),
         Conf("ambient_temp_bme280", "bme280_temperature", "false"),
         Conf("ambient_humidity_bme280", "bme280_humidity", "false"),
         Conf("barometric_pressure_bme280", "bme280_pressure", "false") >>)

ConfigFiles ==
  {AbsentFile, MalformedFile, NoSensorsFile}
    \cup { Doc(s) : s \in SeqUpTo(SensorEntries, MaxSensors) }

\* ------------------------------------------------------------- the log file
\* The file at log_file_path: missing, zero-length or blank ("empty"), text that
\* is no JSON ("malformed"), JSON that is no array ("nonlist"), bytes that are
\* no UTF-8 ("undecodable"), or a JSON array ("valid") of the entries in data.
\* A malformed file left by two overlapping writes keeps in data the longer of
\* the two arrays, whose length is the file's.
LogFile(k, d) == [kind |-> k, data |-> d]
MissingLog == LogFile("missing", << >>)
Entry(t, n) == [type |-> t, id |-> n]
\* Entries a log file written by an earlier run holds.
OldEntries == {Entry("self", 0), Entry("remote", 0)}
\* Longest array an earlier run left in the log file.
MaxOldLog == 2
LogFiles ==
  { LogFile(k, << >>) : k \in {"missing", "empty", "malformed", "nonlist", "undecodable"} }
    \cup { LogFile("valid", d) : d \in SeqUpTo(OldEntries, MaxOldLog) }

\* ------------------------------------------------------------------ packets
\* An inbound packet: whether it has a 'decoded' section, its portnum (the
\* reserved ASNIP_PORTNUM or another), and what its payload bytes are.
Packet(n, dec, port, pl) == [id |-> n, decoded |-> dec, portnum |-> port, payload |-> pl]
PacketsWithId(n) ==
  { Packet(n, FALSE, "other", "ok"), Packet(n, TRUE, "other", "ok"),
    Packet(n, TRUE, "asnip", "ok"), Packet(n, TRUE, "asnip", "empty"),
    Packet(n, TRUE, "asnip", "badjson"), Packet(n, TRUE, "asnip", "badutf8") }
NoPacket == Packet(0, FALSE, "other", "ok")

\* ------------------------------------------------------------------ bounds
\* Thread pairs start() may create.
MaxStarts == 2
\* start() calls where the workers, the receiver and stop() all interleave.
MaxStartsInterleaved == 1
\* stop() calls.
MaxStops == 1
\* Payloads the schedulers collect.
MaxTicks == 2
\* Packets the transport delivers.
MaxPackets == 2
\* Packets delivered where the workers, the receiver and stop() all interleave.
MaxPacketsInterleaved == 1

\* The clamped minimum of self.broadcast_interval: the number of one-second
\* sleeps between two ticks.
broadcast_interval == 5

Gens == 1..MaxStarts

\* ------------------------------------------------------------------- state
VARIABLES
  phase,                  \* "new" before __init__, then "constructed" or "failed"
  iface,                  \* "bound" or None: the interface __init__ was given
  BME280_AVAILABLE,       \* whether the driver import succeeded
  bme280_sensor,          \* None or "sensor": the initialised driver object
  configFile,             \* the file at sensor_config_file_path
  sensor_configurations,  \* the active sensor configuration set
  lastPass,               \* what the last direct _get_sensor_data call did
  logFile,                \* the file at log_file_path
  sensor_log_data,        \* the in-memory log sequence
  message_queue,          \* queue.Queue: payload ids, 0 for the None sentinel
  running,                \* threading.Event: "unset" (no attribute), "set", "clear"
  starts,                 \* thread pairs created; the latest is broadcast_thread
  startCalls,             \* start() calls made
  stops,                  \* stop() calls made
  schedPc,                \* position of each _broadcast_sensor_data_loop thread
  schedItem,              \* its sensor_payload_to_broadcast (payload id)
  sleepLeft,              \* iterations left of its interval sleep loop
  procPc,                 \* position of each _process_message_queue_loop thread
  procItem,               \* its full_sensor_payload
  recvPc,                 \* position of onReceive on the transport's thread
  stopPc,                 \* position of stop() on the caller's thread
  saveBuf,                \* per writer, what json.dump put in its file buffer
  sent,                   \* payloads handed to iface.sendData, in order
  delegated,              \* packets handed to super().onReceive, in order
  ticks,                  \* payloads collected so far (the last payload's id)
  enqueued,               \* payloads put on the queue by the schedulers, in order
  packets,                \* packets delivered so far
  lastPacket,             \* the packet the last onReceive call was given
  accepted,               \* packets appended as remote entries so far
  ioFailed                \* whether some open(..., 'w') has raised IOError

cfgVars == << BME280_AVAILABLE, bme280_sensor, configFile, sensor_configurations >>
logVars == << logFile, sensor_log_data, saveBuf, ioFailed >>
schedVars == << schedPc, schedItem, sleepLeft, ticks, enqueued >>
procVars == << procPc, procItem, sent >>
recvVars == << recvPc, delegated, packets, lastPacket, accepted >>
lifeVars == << running, starts, startCalls, stops, stopPc >>
vars == << phase, iface, cfgVars, lastPass, logVars, message_queue, schedVars,
           procVars, recvVars, lifeVars >>

\* The writers of the log file after construction.
Writers == { <<"sched", g>> : g \in Gens } \cup { <<"recv", 0>>, <<"stop", 0>> }

\* ------------------------------------------------- _load_sensor_configurations
\* sensor_conf.get('name', 'UnnamedSensor')
conf_name(c) == IF c.name = NoKey THEN "UnnamedSensor" ELSE c.name
\* sensor_conf.get('type')
conf_type(c) == IF c.type = NoKey THEN None ELSE c.type
\* Python truthiness of a string or None.
Truthy(v) == v \notin {"", None}

\* The entries the validation loop appends to valid_configs.
ValidConfKeepingAll(c) == TRUE
ValidConf(c) ==
  /\ Truthy(conf_name(c))
  /\ Truthy(conf_type(c))
  /\ conf_type(c) \in sensor_reader_map
  /\ ~(StartsWithBme280(conf_type(c)) /\ ~BME280_AVAILABLE)

\* self.sensor_configurations after _load_sensor_configurations read `file`.
\* An entry that is no mapping makes sensor_conf.get raise AttributeError, which
\* the last except clause turns into an empty set.
load_sensor_configurations(file) ==
  IF file.kind # "doc" THEN << >>
  ELSE IF \E i \in 1..Len(file.sensors) : file.sensors[i].kind # "mapping" THEN << >>
  ELSE SelectSeq(file.sensors, ValidConf)

\* The file after _load_sensor_configurations: an absent one is created with the
\* default document unless the write raises IOError.
config_file_after_load(file, writeOk) ==
  IF file.kind = "absent" /\ writeOk THEN default_config ELSE file

\* ---------------------------------------------------------------- the readers
\* sensor_conf.get("enabled", False), as the `if not` of the loop reads it.
IsEnabledDefaultTrue(c) == c.enabled # "false"
IsEnabled(c) == c.enabled = "true"

\* What a reader call can do: return a value, return None, or raise.
ReaderOutcomes(t) ==
  IF StartsWithBme280(t)
    THEN (IF bme280_sensor = None THEN {"none"} ELSE {"value", "none"})
         \cup (IF t = "bme280_temperature" THEN {"raise"} ELSE {})
  ELSE IF t \in {"simulated_temperature", "simulated_humidity", "random_value"}
    THEN {"value", "raise"}
  ELSE {"value", "none", "raise"}

\* The value the reader of the i-th configuration returns when it returns one.
ReaderValue(i) == i

\* ------------------------------------------------------------ _get_sensor_data
\* The for loop over self.sensor_configurations from index i on; acc holds
\* collected_data, the indexes whose reader was called, those whose value was
\* stored, and whether the loop raised (sensor_conf["name"] is outside the try).
RECURSIVE collect_loop(_, _, _, _)
collect_loop(confs, outcome, i, acc) ==
  IF i > Len(confs) \/ acc.raised THEN acc
  ELSE LET c == confs[i] IN
    IF ~IsEnabled(c) THEN collect_loop(confs, outcome, i + 1, acc)
    ELSE IF c.name = NoKey \/ c.type = NoKey THEN [acc EXCEPT !.raised = TRUE]
    ELSE IF c.type \notin sensor_reader_map THEN collect_loop(confs, outcome, i + 1, acc)
    ELSE LET called == [acc EXCEPT !.invoked = @ \cup {i}] IN
      IF outcome[i] = "value"
        THEN collect_loop(confs, outcome, i + 1,
               [called EXCEPT !.data = (c.name :> ReaderValue(i)) @@ @,
                              !.stored = @ \cup {i}])
        ELSE collect_loop(confs, outcome, i + 1, called)

\* The identity objects getMyNodeInfo can return: None, a mapping with the two
\* keys, a non-empty mapping without them, an object with attributes.
NodeInfos == {None, "mapping", "mapping_nokeys", "attribute"}
\* The id and the name the identity provider holds.
ProviderNum(ni) == IF ni = "mapping" THEN "42" ELSE IF ni = "attribute" THEN "7" ELSE None
ProviderName(ni) ==
  IF ni = "mapping" THEN "fake-node" ELSE IF ni = "attribute" THEN "obj-node" ELSE None

\* node_info.get(...) if node_info else ...: an attribute-style object has no
\* get method (AttributeError).
NodeInfoRaises(ni) == ni = "attribute"
source_node_num(ni) == IF ni = "mapping" THEN ProviderNum(ni) ELSE None
source_node_name(ni) ==
  IF ni = None THEN "Unknown Local Node"
  ELSE IF ni = "mapping" THEN ProviderName(ni) ELSE None

NoPass ==
  [status |-> "none", confs |-> << >>, outcome |-> << >>, node_info |-> None,
   data |-> EmptyMap, invoked |-> {}, stored |-> {}, loop_raised |-> FALSE,
   source_node_num |-> None, source_node_name |-> None]

\* One call of _get_sensor_data: "null" (returns None), "raised", or "returned"
\* with the payload's fields.
get_sensor_data(confs, outcome, ni) ==
  LET called == [NoPass EXCEPT !.confs = confs, !.outcome = outcome, !.node_info = ni] IN
  IF iface = None THEN [called EXCEPT !.status = "null"]
  ELSE LET r == collect_loop(confs, outcome, 1,
                  [data |-> EmptyMap, invoked |-> {}, stored |-> {}, raised |-> FALSE]) IN
    IF r.raised \/ NodeInfoRaises(ni)
      THEN [called EXCEPT !.status = "raised", !.invoked = r.invoked,
                          !.loop_raised = r.raised]
      ELSE [called EXCEPT !.status = "returned", !.data = r.data,
                          !.invoked = r.invoked, !.stored = r.stored,
                          !.source_node_num = source_node_num(ni),
                          !.source_node_name = source_node_name(ni)]

\* The reader outcomes one pass can meet over the first n configurations of the
\* active set; with callsOnly, "none" for the readers the pass does not call.
RECURSIVE OutcomesUpTo(_, _, _)
OutcomesUpTo(confs, n, callsOnly) ==
  IF n = 0 THEN { << >> }
  ELSE LET t == IF confs[n].type = NoKey THEN "static_value" ELSE confs[n].type
           here == IF callsOnly /\ ~IsEnabled(confs[n]) THEN {"none"}
                   ELSE ReaderOutcomes(t)
       IN { Append(o, x) : o \in OutcomesUpTo(confs, n - 1, callsOnly), x \in here }
PassOutcomes(confs) == OutcomesUpTo(confs, Len(confs), FALSE)
TickOutcomes(confs) == OutcomesUpTo(confs, Len(confs), TRUE)

\* ------------------------------------------------ _initialize_bme280_if_needed
\* The driver object after the call: created (or not, when the bus raises) only
\* when the library is there and an enabled bme280_ configuration is active.
Bme280Wanted(confs) ==
  \E i \in 1..Len(confs) : IsEnabled(confs[i]) /\ StartsWithBme280(conf_type(confs[i]))
initialize_bme280_if_needed(confs, busOk) ==
  IF ~BME280_AVAILABLE THEN bme280_sensor
  ELSE IF Bme280Wanted(confs) /\ bme280_sensor = None
    THEN (IF busOk THEN "sensor" ELSE None)
  ELSE bme280_sensor

\* ------------------------------------------------ _save_log_data, _load_log_data
\* self.sensor_log_data.append(entry)
list_insert_front(l, e) == << e >> \o l
list_append(l, e) == Append(l, e)

\* What json.dump(data, f) writes when _save_log_data is called without an
\* argument: the whole of self.sensor_log_data.
dumped_last_entry ==
  IF sensor_log_data = << >> THEN << >>
  ELSE << sensor_log_data[Len(sensor_log_data)] >>
dumped_data == sensor_log_data

\* open(log_file_path, 'w') truncates the file.
TruncatedFile == LogFile("empty", << >>)
\* Closing the file writes the buffer from offset 0: over a file another writer
\* has made longer in the meantime, the longer file's tail stays behind it.
FlushInto(f, buf) ==
  IF Len(f.data) <= Len(buf) THEN LogFile("valid", buf) ELSE LogFile("malformed", f.data)
\* _save_log_data with no other writer around (inside __init__).
save_log_data(f, data, ok) == IF ok THEN LogFile("valid", data) ELSE f

\* _load_log_data: the sequence, the file, and whether the call raised (reading
\* bytes that are no UTF-8 raises UnicodeDecodeError, which no clause catches).
load_log_data(f, saveOk) ==
  IF f.kind = "valid"
    THEN [data |-> f.data, file |-> f, raised |-> FALSE]
  ELSE IF f.kind \in {"missing", "empty"}
    THEN [data |-> << >>, file |-> f, raised |-> FALSE]
  ELSE IF f.kind = "undecodable"
    THEN [data |-> << >>, file |-> f, raised |-> TRUE]
  ELSE [data |-> << >>, file |-> save_log_data(f, << >>, saveOk), raised |-> FALSE]

\* ----------------------------------------------------------------- __init__
\* ASNIP.__init__ with a valid interface, or without one (early return, which
\* creates none of the attributes).
Construct(bound, writeOk, busOk, saveOk) ==
  /\ phase = "new"
  /\ iface' = IF bound THEN "bound" ELSE None
  /\ IF bound
       THEN LET l == load_log_data(logFile, saveOk)
                confs == load_sensor_configurations(configFile) IN
            /\ phase' = IF l.raised THEN "failed" ELSE "constructed"
            /\ sensor_log_data' = l.data
            /\ logFile' = l.file
            /\ ioFailed' = (ioFailed \/ (l.file = logFile /\ logFile.kind \in {"malformed", "nonlist"})
                                     \/ (~l.raised /\ configFile.kind = "absent" /\ ~writeOk))
            /\ sensor_configurations' = IF l.raised THEN << >> ELSE confs
            /\ configFile' = IF l.raised THEN configFile
                             ELSE config_file_after_load(configFile, writeOk)
            /\ bme280_sensor' = IF l.raised THEN None
                                ELSE initialize_bme280_if_needed(confs, busOk)
            /\ running' = IF l.raised THEN "unset" ELSE "set"
       ELSE /\ phase' = "constructed"
            /\ UNCHANGED << sensor_configurations, configFile, bme280_sensor,
                            sensor_log_data, logFile, ioFailed, running >>
  /\ UNCHANGED << BME280_AVAILABLE, lastPass, saveBuf, message_queue, schedVars,
                  procVars, recvVars, starts, startCalls, stops, stopPc >>

\* A direct call of _get_sensor_data (the first one: a pass changes nothing
\* that a later pass reads).
CollectPass ==
  /\ phase = "constructed"
  /\ lastPass.status = "none"
  /\ \E ni \in NodeInfos : \E outcome \in PassOutcomes(sensor_configurations) :
       lastPass' = get_sensor_data(sensor_configurations, outcome, ni)
  /\ UNCHANGED << phase, iface, cfgVars, logVars, message_queue, schedVars,
                  procVars, recvVars, lifeVars >>

\* ------------------------------------------------------------------- start
Alive(pc) == pc \notin {"none", "done"}
\* self.broadcast_thread / self.queue_processor_thread is set and is_alive().
BroadcastThreadAlive == IF starts = 0 THEN FALSE ELSE Alive(schedPc[starts])
ProcessorThreadAlive == IF starts = 0 THEN FALSE ELSE Alive(procPc[starts])
CallerIdle == stopPc \in {"idle", "returned", "raised"}

\* if not self.iface: return
StartNeverNoOp == FALSE
StartIsNoOp == iface = None

\* start(): a no-op without an interface; otherwise reload the configuration,
\* set the event and create and start the two threads.
Start(writeOk, busOk) ==
  /\ phase = "constructed"
  /\ CallerIdle
  /\ startCalls < MaxStarts
  /\ startCalls' = startCalls + 1
  /\ IF StartIsNoOp
       THEN UNCHANGED << cfgVars, ioFailed, running, starts, schedPc, procPc, stopPc >>
       ELSE LET confs == load_sensor_configurations(configFile) IN
            /\ sensor_configurations' = confs
            /\ configFile' = config_file_after_load(configFile, writeOk)
            /\ ioFailed' = (ioFailed \/ (configFile.kind = "absent" /\ ~writeOk))
            /\ bme280_sensor' = initialize_bme280_if_needed(confs, busOk)
            /\ running' = "set"
            /\ starts' = starts + 1
            /\ schedPc' = [schedPc EXCEPT ![starts + 1] = "loop"]
            /\ procPc' = [procPc EXCEPT ![starts + 1] = "loop"]
            /\ stopPc' = "idle"
            /\ UNCHANGED BME280_AVAILABLE
  /\ UNCHANGED << enqueued, phase, iface, lastPass, logFile, sensor_log_data, saveBuf,
                  message_queue, schedItem, sleepLeft, ticks, procItem, sent,
                  recvVars, stops >>

\* ----------------------------------------------- _broadcast_sensor_data_loop
\* while self.running.is_set(): a new tick is entered only within the model's
\* bound on payloads.
SchedCheck(g) ==
  /\ schedPc[g] = "loop"
  /\ running = "clear" \/ ticks < MaxTicks
  /\ schedPc' = [schedPc EXCEPT ![g] = IF running = "set" THEN "collecting" ELSE "done"]
  /\ UNCHANGED << enqueued, phase, iface, cfgVars, lastPass, logVars, message_queue,
                  schedItem, sleepLeft, ticks, procVars, recvVars, lifeVars >>

\* The position after an exception in the try block: time.sleep(5), begun
\* before or after the event was cleared.
CooldownPcExits == "done"
CooldownPc == IF running = "clear" THEN "cooldown_late" ELSE "cooldown"

\* log_entry_self, by the id of the payload it holds.
log_entry_mistyped(id) == Entry("remote", id)
log_entry_self(id) == Entry("self", id)

\* _get_sensor_data returns; on a payload, build the self entry and append it.
\* An exception of the pass goes to the except clause of the loop.
SchedCollect(g) ==
  /\ schedPc[g] = "collecting"
  /\ \E ni \in NodeInfos : \E outcome \in TickOutcomes(sensor_configurations) :
     LET r == get_sensor_data(sensor_configurations, outcome, ni) IN
     IF r.status = "returned"
       THEN /\ ticks' = ticks + 1
            /\ schedItem' = [schedItem EXCEPT ![g] = ticks + 1]
            /\ sensor_log_data' = list_append(sensor_log_data, log_entry_self(ticks + 1))
            /\ schedPc' = [schedPc EXCEPT ![g] = "save_open"]
       ELSE /\ schedPc' = [schedPc EXCEPT ![g] = CooldownPc]
            /\ UNCHANGED << ticks, schedItem, sensor_log_data >>
  /\ UNCHANGED << enqueued, phase, iface, cfgVars, lastPass, logFile, saveBuf, ioFailed,
                  message_queue, sleepLeft, procVars, recvVars, lifeVars >>

\* _save_log_data(): open the file for writing (IOError is caught and logged).
SchedSaveOpen(g, ok) ==
  /\ schedPc[g] = "save_open"
  /\ logFile' = IF ok THEN TruncatedFile ELSE logFile
  /\ ioFailed' = (ioFailed \/ ~ok)
  /\ schedPc' = [schedPc EXCEPT ![g] = IF ok THEN "save_dump" ELSE "enqueue"]
  /\ UNCHANGED << enqueued, phase, iface, cfgVars, lastPass, sensor_log_data, saveBuf,
                  message_queue, schedItem, sleepLeft, ticks, procVars, recvVars,
                  lifeVars >>

\* json.dump(self.sensor_log_data, f) fills the file object's buffer.
SchedSaveDump(g) ==
  /\ schedPc[g] = "save_dump"
  /\ saveBuf' = [saveBuf EXCEPT ![<<"sched", g>>] = dumped_data]
  /\ schedPc' = [schedPc EXCEPT ![g] = "save_close"]
  /\ UNCHANGED << enqueued, phase, iface, cfgVars, lastPass, logFile, sensor_log_data,
                  ioFailed, message_queue, schedItem, sleepLeft, ticks, procVars,
                  recvVars, lifeVars >>

\* Leaving the with block closes the file, which writes the buffer out.
SchedSaveClose(g) ==
  /\ schedPc[g] = "save_close"
  /\ logFile' = FlushInto(logFile, saveBuf[<<"sched", g>>])
  /\ saveBuf' = [saveBuf EXCEPT ![<<"sched", g>>] = << >>]
  /\ schedPc' = [schedPc EXCEPT ![g] = "enqueue"]
  /\ UNCHANGED << enqueued, phase, iface, cfgVars, lastPass, sensor_log_data, ioFailed,
                  message_queue, schedItem, sleepLeft, ticks, procVars, recvVars,
                  lifeVars >>

\* self.message_queue.put(sensor_payload_to_broadcast)
SchedEnqueue(g) ==
  /\ schedPc[g] = "enqueue"
  /\ message_queue' = Append(message_queue, schedItem[g])
  /\ enqueued' = Append(enqueued, schedItem[g])
  /\ sleepLeft' = [sleepLeft EXCEPT ![g] = broadcast_interval]
  /\ schedPc' = [schedPc EXCEPT ![g] = "sleep_check"]
  /\ UNCHANGED << phase, iface, cfgVars, lastPass, logVars, schedItem, ticks,
                  procVars, recvVars, lifeVars >>

\* for _ in range(self.broadcast_interval): if not self.running.is_set(): break
SchedSleepCheck(g) ==
  /\ schedPc[g] = "sleep_check"
  /\ schedPc' = [schedPc EXCEPT ![g] =
                   IF sleepLeft[g] = 0 \/ running # "set" THEN "loop" ELSE "sleeping"]
  /\ sleepLeft' = [sleepLeft EXCEPT ![g] =
                     IF sleepLeft[g] = 0 \/ running # "set" THEN 0 ELSE @]
  /\ UNCHANGED << enqueued, phase, iface, cfgVars, lastPass, logVars, message_queue,
                  schedItem, ticks, procVars, recvVars, lifeVars >>

\* time.sleep(1)
SchedSleep(g) ==
  /\ schedPc[g] = "sleeping"
  /\ sleepLeft' = [sleepLeft EXCEPT ![g] = @ - 1]
  /\ schedPc' = [schedPc EXCEPT ![g] = "sleep_check"]
  /\ UNCHANGED << enqueued, phase, iface, cfgVars, lastPass, logVars, message_queue,
                  schedItem, ticks, procVars, recvVars, lifeVars >>

\* time.sleep(5) of the except clause ends.
SchedCooldown(g) ==
  /\ schedPc[g] \in {"cooldown", "cooldown_late"}
  /\ schedPc' = [schedPc EXCEPT ![g] = "loop"]
  /\ UNCHANGED << enqueued, phase, iface, cfgVars, lastPass, logVars, message_queue,
                  schedItem, sleepLeft, ticks, procVars, recvVars, lifeVars >>

\* ----------------------------------------------- _process_message_queue_loop
\* while self.running.is_set():
ProcCheck(g) ==
  /\ procPc[g] = "loop"
  /\ procPc' = [procPc EXCEPT ![g] = IF running = "set" THEN "get" ELSE "done"]
  /\ UNCHANGED << phase, iface, cfgVars, lastPass, logVars, message_queue,
                  schedVars, procItem, sent, recvVars, lifeVars >>

\* if full_sensor_payload: (the None sentinel is falsy)
PayloadTruthyAlways(item) == TRUE
PayloadTruthy(item) == item # 0
\* except queue.Empty: continue
AfterEmptyExits == "done"
AfterEmptyPc == "loop"

\* self.message_queue.get(timeout=1): an item, or queue.Empty after the wait.
\* A falsy item (the None sentinel) is dropped.
ProcGet(g) ==
  /\ procPc[g] = "get"
  /\ IF message_queue = << >>
       THEN /\ procPc' = [procPc EXCEPT ![g] = AfterEmptyPc]
            /\ UNCHANGED << message_queue, procItem >>
       ELSE /\ message_queue' = Tail(message_queue)
            /\ procItem' = [procItem EXCEPT ![g] = Head(message_queue)]
            /\ procPc' = [procPc EXCEPT ![g] =
                            IF PayloadTruthy(Head(message_queue)) THEN "send"
                            ELSE "loop"]
  /\ UNCHANGED << phase, iface, cfgVars, lastPass, logVars, schedVars, sent,
                  recvVars, lifeVars >>

\* json.dumps, self.iface.sendData (which returns or raises), task_done.
ProcSend(g, ok) ==
  /\ procPc[g] = "send"
  /\ sent' = Append(sent, [payload |-> procItem[g], ok |-> ok])
  /\ procItem' = [procItem EXCEPT ![g] = 0]
  /\ procPc' = [procPc EXCEPT ![g] = "loop"]
  /\ UNCHANGED << phase, iface, cfgVars, lastPass, logVars, message_queue,
                  schedVars, recvVars, lifeVars >>

\* ------------------------------------------------------------------ onReceive
\* decoded_packet and decoded_packet.get('portnum') == ASNIP_PORTNUM
PortMatchesAlways(p) == TRUE
PortMatches(p) == p.decoded /\ p.portnum = "asnip"
\* json.loads(payload_bytes.decode('utf-8')) returns (it raises
\* UnicodeDecodeError or json.JSONDecodeError otherwise).
PayloadDecodesAlways(p) == TRUE
PayloadDecodes(p) == p.payload \notin {"badjson", "badutf8"}

\* onReceive up to its return or to the call of _save_log_data. A packet that
\* is not for ASNIP, or whose payload does not decode, goes to
\* super().onReceive; one with no payload bytes returns at once; a decoded one
\* is appended as a remote entry.
OnReceive(p) ==
  /\ phase = "constructed"
  /\ recvPc = "idle"
  /\ packets < MaxPackets
  /\ p \in PacketsWithId(packets + 1)
  /\ packets' = packets + 1
  /\ lastPacket' = p
  /\ IF iface = None \/ ~PortMatches(p) \/ ~PayloadDecodes(p)
       THEN /\ delegated' = Append(delegated, p)
            /\ UNCHANGED << recvPc, sensor_log_data, accepted >>
       ELSE IF p.payload = "empty"
         THEN UNCHANGED << delegated, recvPc, sensor_log_data, accepted >>
         ELSE /\ sensor_log_data' = list_append(sensor_log_data, Entry("remote", p.id))
              /\ accepted' = accepted + 1
              /\ recvPc' = "save_open"
              /\ UNCHANGED delegated
  /\ UNCHANGED << phase, iface, cfgVars, lastPass, logFile, saveBuf, ioFailed,
                  message_queue, schedVars, procVars, lifeVars >>

RecvSaveOpen(ok) ==
  /\ recvPc = "save_open"
  /\ logFile' = IF ok THEN TruncatedFile ELSE logFile
  /\ ioFailed' = (ioFailed \/ ~ok)
  /\ recvPc' = IF ok THEN "save_dump" ELSE "idle"
  /\ UNCHANGED << phase, iface, cfgVars, lastPass, sensor_log_data, saveBuf,
                  message_queue, schedVars, procVars, delegated, packets,
                  lastPacket, accepted, lifeVars >>

RecvSaveDump ==
  /\ recvPc = "save_dump"
  /\ saveBuf' = [saveBuf EXCEPT ![<<"recv", 0>>] = dumped_data]
  /\ recvPc' = "save_close"
  /\ UNCHANGED << phase, iface, cfgVars, lastPass, logFile, sensor_log_data,
                  ioFailed, message_queue, schedVars, procVars, delegated,
                  packets, lastPacket, accepted, lifeVars >>

\* The file is closed and onReceive returns (the packet was handled by ASNIP).
RecvSaveClose ==
  /\ recvPc = "save_close"
  /\ logFile' = FlushInto(logFile, saveBuf[<<"recv", 0>>])
  /\ saveBuf' = [saveBuf EXCEPT ![<<"recv", 0>>] = << >>]
  /\ recvPc' = "idle"
  /\ UNCHANGED << phase, iface, cfgVars, lastPass, sensor_log_data, ioFailed,
                  message_queue, schedVars, procVars, delegated, packets,
                  lastPacket, accepted, lifeVars >>

\* ---------------------------------------------------------------------- stop
\* self.running.clear() and the None put on the queue. Without an interface
\* __init__ created no event, and the call raises AttributeError.
StopBegin ==
  /\ phase = "constructed"
  /\ CallerIdle
  /\ stops < MaxStops
  /\ stops' = stops + 1
  /\ IF running = "unset"
       THEN /\ stopPc' = "raised"
            /\ UNCHANGED << running, message_queue >>
       ELSE /\ running' = "clear"
            /\ message_queue' = IF starts > 0 THEN Append(message_queue, 0)
                                ELSE message_queue
            /\ stopPc' = "join_b"
  /\ UNCHANGED << phase, iface, cfgVars, lastPass, logVars, schedVars, procVars,
                  recvVars, starts, startCalls >>

\* Whether a worker is inside a call that can last as long as join's 5 seconds:
\* a custom_script reader (subprocess.run with its configured timeout, 5 by
\* default), the sleep(5) begun after the event was cleared, iface.sendData.
BlockingReader(confs) ==
  \E i \in 1..Len(confs) : IsEnabled(confs[i]) /\ confs[i].type = "custom_script"
SchedCanOutlastJoin(g) ==
  \/ schedPc[g] = "collecting" /\ BlockingReader(sensor_configurations)
  \/ schedPc[g] = "cooldown_late"
ProcCanOutlastJoin(g) == procPc[g] = "send"

\* self.broadcast_thread.join(timeout=5), skipped when the thread is not alive:
\* it returns when the thread has ended, or on the timeout.
StopJoinBroadcast ==
  /\ stopPc = "join_b"
  /\ IF BroadcastThreadAlive THEN SchedCanOutlastJoin(starts) ELSE TRUE
  /\ stopPc' = "join_q"
  /\ UNCHANGED << phase, iface, cfgVars, lastPass, logVars, message_queue,
                  schedVars, procVars, recvVars, running, starts, startCalls, stops >>

\* self.queue_processor_thread.join(timeout=5); then, with an interface, the
\* final _save_log_data.
StopJoinProcessor ==
  /\ stopPc = "join_q"
  /\ IF ProcessorThreadAlive THEN ProcCanOutlastJoin(starts) ELSE TRUE
  /\ stopPc' = IF iface = None THEN "returned" ELSE "save_open"
  /\ UNCHANGED << phase, iface, cfgVars, lastPass, logVars, message_queue,
                  schedVars, procVars, recvVars, running, starts, startCalls, stops >>

StopSaveOpen(ok) ==
  /\ stopPc = "save_open"
  /\ logFile' = IF ok THEN TruncatedFile ELSE logFile
  /\ ioFailed' = (ioFailed \/ ~ok)
  /\ stopPc' = IF ok THEN "save_dump" ELSE "returned"
  /\ UNCHANGED << phase, iface, cfgVars, lastPass, sensor_log_data, saveBuf,
                  message_queue, schedVars, procVars, recvVars, running, starts,
                  startCalls, stops >>

StopSaveDump ==
  /\ stopPc = "save_dump"
  /\ saveBuf' = [saveBuf EXCEPT ![<<"stop", 0>>] = dumped_data]
  /\ stopPc' = "save_close"
  /\ UNCHANGED << phase, iface, cfgVars, lastPass, logFile, sensor_log_data,
                  ioFailed, message_queue, schedVars, procVars, recvVars, running,
                  starts, startCalls, stops >>

\* The file is closed and stop() returns.
StopSaveClose ==
  /\ stopPc = "save_close"
  /\ logFile' = FlushInto(logFile, saveBuf[<<"stop", 0>>])
  /\ saveBuf' = [saveBuf EXCEPT ![<<"stop", 0>>] = << >>]
  /\ stopPc' = "returned"
  /\ UNCHANGED << phase, iface, cfgVars, lastPass, sensor_log_data, ioFailed,
                  message_queue, schedVars, procVars, recvVars, running, starts,
                  startCalls, stops >>

\* ------------------------------------------------------------ specifications
\* Everything but the two files and the driver, before __init__.
InitRest ==
  /\ phase = "new"
  /\ iface = None
  /\ bme280_sensor = None
  /\ sensor_configurations = << >>
  /\ lastPass = NoPass
  /\ sensor_log_data = << >>
  /\ message_queue = << >>
  /\ running = "unset"
  /\ starts = 0
  /\ startCalls = 0
  /\ stops = 0
  /\ schedPc = [g \in Gens |-> "none"]
  /\ schedItem = [g \in Gens |-> 0]
  /\ sleepLeft = [g \in Gens |-> 0]
  /\ procPc = [g \in Gens |-> "none"]
  /\ procItem = [g \in Gens |-> 0]
  /\ recvPc = "idle"
  /\ stopPc = "idle"
  /\ saveBuf = [w \in Writers |-> << >>]
  /\ sent = << >>
  /\ delegated = << >>
  /\ ticks = 0
  /\ enqueued = << >>
  /\ packets = 0
  /\ lastPacket = NoPacket
  /\ accepted = 0
  /\ ioFailed = FALSE

\* The configuration loader and the collector: any configuration document, no
\* log file; construction, start() and direct collection passes.
InitCollect ==
  /\ InitRest
  /\ BME280_AVAILABLE \in BOOLEAN
  /\ configFile \in ConfigFiles
  /\ logFile = MissingLog

NextCollect ==
  \/ \E bound, writeOk, busOk \in BOOLEAN : Construct(bound, writeOk, busOk, TRUE)
  \/ \E writeOk, busOk \in BOOLEAN : Start(writeOk, busOk)
  \/ CollectPass

SpecCollect == InitCollect /\ [][NextCollect]_vars

\* The log store on the transport's thread alone: any log file; construction,
\* then packets, with writes that can fail.
InitLog ==
  /\ InitRest
  /\ BME280_AVAILABLE = FALSE
  /\ configFile = AbsentFile
  /\ logFile \in LogFiles

NextLog ==
  \/ \E bound, saveOk \in BOOLEAN : Construct(bound, TRUE, TRUE, saveOk)
  \/ \E p \in PacketsWithId(packets + 1) : OnReceive(p)
  \/ \E ok \in BOOLEAN : RecvSaveOpen(ok)
  \/ RecvSaveDump
  \/ RecvSaveClose

SpecLog == InitLog /\ [][NextLog]_vars

\* The running plugin: the two workers, the receiver and the caller of start()
\* and stop(), interleaved; the disk does not fail.
MainConfigFiles == {AbsentFile, Doc(<< Conf("a", "custom_script", "true") >>)}

Init ==
  /\ InitRest
  /\ BME280_AVAILABLE = FALSE
  /\ configFile \in MainConfigFiles
  /\ logFile = MissingLog

Next ==
  \/ \E bound \in BOOLEAN : Construct(bound, TRUE, TRUE, TRUE)
  \/ (startCalls < MaxStartsInterleaved /\ Start(TRUE, TRUE))
  \/ \E g \in Gens : SchedCheck(g)
  \/ \E g \in Gens : SchedCollect(g)
  \/ \E g \in Gens : SchedSaveOpen(g, TRUE)
  \/ \E g \in Gens : SchedSaveDump(g)
  \/ \E g \in Gens : SchedSaveClose(g)
  \/ \E g \in Gens : SchedEnqueue(g)
  \/ \E g \in Gens : SchedSleepCheck(g)
  \/ \E g \in Gens : SchedSleep(g)
  \/ \E g \in Gens : SchedCooldown(g)
  \/ \E g \in Gens : ProcCheck(g)
  \/ \E g \in Gens : ProcGet(g)
  \/ \E g \in Gens : \E ok \in BOOLEAN : ProcSend(g, ok)
  \/ (packets < MaxPacketsInterleaved
        /\ \E p \in PacketsWithId(packets + 1) : OnReceive(p))
  \/ RecvSaveOpen(TRUE)
  \/ RecvSaveDump
  \/ RecvSaveClose
  \/ StopBegin
  \/ StopJoinBroadcast
  \/ StopJoinProcessor
  \/ StopSaveOpen(TRUE)
  \/ StopSaveDump
  \/ StopSaveClose

Spec == Init /\ [][Next]_vars

\* The life cycle: the caller of start() and stop() and the workers of every
\* thread pair start() creates, over one enabled sensor; no packet is
\* delivered and the disk does not fail.
InitLife ==
  /\ InitRest
  /\ BME280_AVAILABLE = FALSE
  /\ configFile = Doc(<< Conf("a", "static_value", "true") >>)
  /\ logFile = MissingLog

NextLife ==
  \/ Construct(TRUE, TRUE, TRUE, TRUE)
  \/ Start(TRUE, TRUE)
  \/ \E g \in Gens : SchedCheck(g)
  \/ \E g \in Gens : SchedCollect(g)
  \/ \E g \in Gens : SchedSaveOpen(g, TRUE)
  \/ \E g \in Gens : SchedSaveDump(g)
  \/ \E g \in Gens : SchedSaveClose(g)
  \/ \E g \in Gens : SchedEnqueue(g)
  \/ \E g \in Gens : SchedSleepCheck(g)
  \/ \E g \in Gens : SchedSleep(g)
  \/ \E g \in Gens : SchedCooldown(g)
  \/ \E g \in Gens : ProcCheck(g)
  \/ \E g \in Gens : ProcGet(g)
  \/ \E g \in Gens : \E ok \in BOOLEAN : ProcSend(g, ok)
  \/ StopBegin
  \/ StopJoinBroadcast
  \/ StopJoinProcessor
  \/ StopSaveOpen(TRUE)
  \/ StopSaveDump
  \/ StopSaveClose

SpecLife == InitLife /\ [][NextLife]_vars

\* One thread pair and the caller of start() and stop(), over one enabled
\* sensor, with a disk whose writes can fail.
NextDisk ==
  \/ Construct(TRUE, TRUE, TRUE, TRUE)
  \/ (startCalls < MaxStartsInterleaved /\ Start(TRUE, TRUE))
  \/ \E g \in Gens : SchedCheck(g)
  \/ \E g \in Gens : SchedCollect(g)
  \/ \E g \in Gens : \E ok \in BOOLEAN : SchedSaveOpen(g, ok)
  \/ \E g \in Gens : SchedSaveDump(g)
  \/ \E g \in Gens : SchedSaveClose(g)
  \/ \E g \in Gens : SchedEnqueue(g)
  \/ \E g \in Gens : SchedSleepCheck(g)
  \/ \E g \in Gens : SchedSleep(g)
  \/ \E g \in Gens : SchedCooldown(g)
  \/ \E g \in Gens : ProcCheck(g)
  \/ \E g \in Gens : ProcGet(g)
  \/ \E g \in Gens : \E ok \in BOOLEAN : ProcSend(g, ok)
  \/ StopBegin
  \/ StopJoinBroadcast
  \/ StopJoinProcessor
  \/ \E ok \in BOOLEAN : StopSaveOpen(ok)
  \/ StopSaveDump
  \/ StopSaveClose

SpecDisk == InitLife /\ [][NextDisk]_vars

\* The same, with the queue processor threads scheduled fairly: a started
\* thread that can take its next step (the loop test, the get with its
\* one-second timeout, the send) eventually takes it.
ProcFair ==
  \A g \in Gens :
    /\ WF_vars(ProcCheck(g))
    /\ WF_vars(ProcGet(g))
    /\ WF_vars(\E ok \in BOOLEAN : ProcSend(g, ok))

SpecLive == InitLife /\ [][NextDisk]_vars /\ ProcFair

\* ------------------------------------------------------------------- claims
\* The configurations of the last pass that are enabled and of a registered
\* type, as the configuration document states them.
EnabledRegistered(i) ==
  /\ lastPass.confs[i].enabled = "true"
  /\ lastPass.confs[i].type \in sensor_reader_map
PassDone == lastPass.status \in {"returned", "raised"}

\* C1: in the payload a pass returns, the data map holds the name of an enabled
\* sensor of a registered type if and only if that sensor's reader returned a
\* value in this pass.
C1_DataIffReaderPresent ==
  lastPass.status = "returned" =>
    \A i \in 1..Len(lastPass.confs) :
      EnabledRegistered(i) =>
        ((lastPass.confs[i].name \in DOMAIN lastPass.data)
           <=> lastPass.outcome[i] = "value")

\* C2: a configuration whose enabled flag is false or missing has its reader
\* never called and stores no value, and a name that only such configurations
\* carry is no key of the data map, whatever the reader would return.
Disabled(i) == lastPass.confs[i].enabled \in {"false", NoKey}
C2_DisabledNeverRead ==
  PassDone =>
    \A i \in 1..Len(lastPass.confs) :
      Disabled(i) =>
        /\ i \notin lastPass.invoked
        /\ i \notin lastPass.stored
        /\ (\A j \in 1..Len(lastPass.confs) :
              lastPass.confs[j].name = lastPass.confs[i].name => Disabled(j))
             => lastPass.confs[i].name \notin DOMAIN lastPass.data
\* A returned pass over a disabled configuration whose reader would have
\* returned a value, next to an enabled one that stored its value.
C2_Witness ==
  /\ lastPass.status = "returned"
  /\ \E i \in 1..Len(lastPass.confs) : Disabled(i) /\ lastPass.outcome[i] = "value"
  /\ lastPass.stored # {}

\* C3: when the reader of an enabled sensor raises or returns None, the pass
\* still returns a payload, every other sensor whose reader returned a value is
\* in it with that value, and the failing sensor's key is left out.
C3_FailureIsolated ==
  (PassDone /\ \E i \in lastPass.invoked : lastPass.outcome[i] # "value") =>
    /\ lastPass.status = "returned"
    /\ \A i \in lastPass.invoked :
         IF lastPass.outcome[i] = "value"
           THEN /\ lastPass.confs[i].name \in DOMAIN lastPass.data
                /\ lastPass.data[lastPass.confs[i].name] = ReaderValue(i)
           ELSE lastPass.confs[i].name \notin DOMAIN lastPass.data

\* C4: from an empty log store, once N ticks and M accepted receipts are done,
\* with the scheduler and the receiver the only writers (no stop() call) and
\* neither inside a tick or a save, the log store holds N self and M remote
\* entries and the file holds that same sequence (the disk never failing).
TickUnderWay(g) == schedPc[g] \in {"save_open", "save_dump", "save_close", "enqueue"}
Saving(pc) == pc \in {"save_open", "save_dump", "save_close"}
EntriesOfType(t) == { i \in 1..Len(sensor_log_data) : sensor_log_data[i].type = t }
C4_LogHoldsEveryEntry ==
  (/\ ticks + accepted >= 1
   /\ ~ioFailed
   /\ stops = 0
   /\ \A g \in Gens : ~TickUnderWay(g)
   /\ ~Saving(recvPc)) =>
    /\ Len(sensor_log_data) = ticks + accepted
    /\ Cardinality(EntriesOfType("self")) = ticks
    /\ Cardinality(EntriesOfType("remote")) = accepted
    /\ logFile = LogFile("valid", sensor_log_data)

\* C5: constructing over an existing log file that is no JSON array does not
\* raise, leaves the in-memory sequence empty and, unless the write fails,
\* leaves an empty array in the file.
C5_CorruptedLogResets ==
  [][(/\ phase = "new"
      /\ phase' # "new"
      /\ iface' = "bound"
      /\ logFile.kind \in {"malformed", "nonlist", "undecodable"}) =>
       /\ phase' = "constructed"
       /\ sensor_log_data' = << >>
       /\ (logFile' = LogFile("valid", << >>) \/ ioFailed')]_vars

\* C6: once stop() has returned after start(), neither the broadcast thread nor
\* the queue processor thread is alive.
C6_StopLeavesNoWorker ==
  (stopPc = "returned" /\ starts >= 1) =>
    ~BroadcastThreadAlive /\ ~ProcessorThreadAlive

\* C7: onReceive of a packet with no decoded section or with another portnum
\* changes neither the in-memory log nor the file nor any write under way, and
\* hands that very packet to the next handler.
C7_NonMatchingPassedThrough ==
  [][(/\ packets' = packets + 1
      /\ (~lastPacket'.decoded \/ lastPacket'.portnum # "asnip")) =>
       /\ sensor_log_data' = sensor_log_data
       /\ logFile' = logFile
       /\ saveBuf' = saveBuf
       /\ recvPc' = recvPc
       /\ delegated' = Append(delegated, lastPacket')]_vars
\* A packet on another port was handed on while the log held entries in memory
\* and in the file.
C7_Witness ==
  /\ \E i \in 1..Len(delegated) : delegated[i].decoded /\ delegated[i].portnum = "other"
  /\ sensor_log_data # << >>
  /\ logFile = LogFile("valid", sensor_log_data)

\* C8: after construction and after every start(), each active configuration
\* has a type that is a key of the reader map, no bme280_ type is active when
\* the driver is missing, and a pass meets no enabled configuration of an
\* unregistered type.
C8_ActiveTypesRegistered ==
  /\ \A i \in 1..Len(sensor_configurations) :
       /\ sensor_configurations[i].type \in sensor_reader_map
       /\ StartsWithBme280(sensor_configurations[i].type) => BME280_AVAILABLE
  /\ \A i \in 1..Len(lastPass.confs) :
       lastPass.confs[i].enabled = "true" => lastPass.confs[i].type \in sensor_reader_map
\* After a start(), a document with an entry of an unregistered type and one
\* of a driver-backed type without the driver has left a non-empty active set.
C8_Witness ==
  /\ starts >= 1
  /\ configFile.kind = "doc"
  /\ \E i \in 1..Len(configFile.sensors) : configFile.sensors[i].type = "bogus"
  /\ sensor_configurations # << >>

\* C9: constructing with the configuration file absent creates the default
\* document and leaves an active set of at least one entry.
C9_DefaultSetLoaded ==
  [][(/\ phase = "new"
      /\ phase' = "constructed"
      /\ iface' = "bound"
      /\ configFile.kind = "absent") =>
       /\ configFile' = default_config
       /\ Len(sensor_configurations') >= 1]_vars

\* C10: a pass whose sensor loop did not raise returns a payload stamped with
\* the id and name the identity provider holds, by key or by attribute, and
\* with no id and the "unknown" name when it holds neither.
C10_IdentityStamped ==
  (PassDone /\ ~lastPass.loop_raised) =>
    /\ lastPass.status = "returned"
    /\ lastPass.source_node_num = ProviderNum(lastPass.node_info)
    /\ lastPass.source_node_name =
         IF ProviderName(lastPass.node_info) = None THEN "Unknown Local Node"
         ELSE ProviderName(lastPass.node_info)

\* C11: whenever onReceive has returned, every packet delivered so far has been
\* handed to the next handler exactly once, the logged ones and the ones with
\* an empty payload included.
TimesDelegated(n) == Cardinality({ i \in 1..Len(delegated) : delegated[i].id = n })
C11_DelegatedExactlyOnce ==
  recvPc = "idle" => \A n \in 1..packets : TimesDelegated(n) = 1

\* C12: onReceive of a packet on the reserved port whose payload is malformed
\* JSON or invalid UTF-8 returns without raising, changes neither the in-memory
\* log nor the file nor any write under way, and hands the packet on.
C12_DecodeFailureDelegated ==
  [][(/\ packets' = packets + 1
      /\ PortMatches(lastPacket')
      /\ lastPacket'.payload \in {"badjson", "badutf8"}) =>
       /\ recvPc' = "idle"
       /\ sensor_log_data' = sensor_log_data
       /\ logFile' = logFile
       /\ saveBuf' = saveBuf
       /\ delegated' = Append(delegated, lastPacket')]_vars
\* With an interface bound and entries in the log, a packet on the reserved
\* port whose payload does not decode was handed on.
C12_Witness ==
  /\ iface = "bound"
  /\ sensor_log_data # << >>
  /\ \E i \in 1..Len(delegated) :
       /\ PortMatches(delegated[i])
       /\ delegated[i].payload \in {"badjson", "badutf8"}

\* C13: in no state are a broadcast thread and the receiver both between the
\* append of their entry and the end of their rewrite of the log file.
C13_AppendRewriteExclusive ==
  ~(\E g \in Gens : Saving(schedPc[g]) /\ Saving(recvPc))

\* C14: constructing over a log file that is missing, empty or malformed leaves
\* the in-memory sequence empty and, unless the write fails, an empty array in
\* the file.
C14_LoadFailurePersistsEmpty ==
  [][(/\ phase = "new"
      /\ phase' # "new"
      /\ iface' = "bound"
      /\ logFile.kind \in {"missing", "empty", "malformed"}) =>
       /\ sensor_log_data' = << >>
       /\ (logFile' = LogFile("valid", << >>) \/ ioFailed')]_vars

\* C15: start() on a plugin constructed without an interface creates no thread,
\* does not reload the configuration or create its file, and leaves the event,
\* the queue and the log as they were.
C15_StartWithoutInterfaceNoOp ==
  [][(startCalls' = startCalls + 1 /\ iface = None) =>
       UNCHANGED << starts, schedPc, procPc, cfgVars, running, message_queue,
                    logVars >>]_vars
\* start() was called without an interface while the configuration file was
\* absent, which a reload would have created.
C15_Witness ==
  /\ startCalls >= 1
  /\ iface = None
  /\ configFile.kind = "absent"

\* C16: once stop() has returned and both workers have ended, the queue holds
\* nothing, neither a payload nor the None sentinel.
C16_QueueDrainedByStop ==
  (stopPc = "returned" /\ ~BroadcastThreadAlive /\ ~ProcessorThreadAlive) =>
    message_queue = << >>

\* C17: with an interface bound and an identity object the code can read, a
\* collection pass over the active set returns a payload: it does not raise.
C17_CollectorAlwaysReturns ==
  (PassDone /\ iface = "bound" /\ lastPass.node_info # "attribute") =>
    lastPass.status = "returned"

\* C18: loading a document with a "sensors" list, at construction or in
\* start(), leaves as the active set the subsequence, in document order, of the
\* entries that are mappings with a non-empty name and a registered type
\* (whose driver is there).
ShouldBeKept(c) ==
  /\ c.kind = "mapping"
  /\ c.name \notin {NoKey, ""}
  /\ c.type \in sensor_reader_map
  /\ StartsWithBme280(c.type) => BME280_AVAILABLE
ConfigurationLoaded ==
  \/ phase = "new" /\ phase' = "constructed" /\ iface' = "bound"
  \/ starts' = starts + 1
C18_ActiveSetIsValidSubsequence ==
  [][(ConfigurationLoaded /\ configFile.kind = "doc") =>
       sensor_configurations' = SelectSeq(configFile.sensors, ShouldBeKept)]_vars

\* C19: after loading a configuration file that is malformed JSON or has no
\* "sensors" list, the active set is the built-in default sensor set.
C19_MalformedFallsBackToDefaults ==
  (/\ phase = "constructed"
   /\ iface = "bound"
   /\ configFile.kind \in {"malformed", "nosensors"}) =>
    sensor_configurations = SelectSeq(default_config.sensors, ShouldBeKept)

\* C20: every payload that is about to be enqueued, is in the queue, is held by
\* a queue processor or was handed to sendData has its self entry in the
\* in-memory log, and each payload has at most one self entry and was enqueued
\* at most once.
HasSelfEntry(id) ==
  \E i \in 1..Len(sensor_log_data) :
    sensor_log_data[i].type = "self" /\ sensor_log_data[i].id = id
TimesAppended(id) ==
  Cardinality({ i \in 1..Len(sensor_log_data) :
                  sensor_log_data[i].type = "self" /\ sensor_log_data[i].id = id })
TimesEnqueued(id) ==
  Cardinality({ i \in 1..Len(message_queue) : message_queue[i] = id })
    + Cardinality({ g \in Gens : procItem[g] = id })
    + Cardinality({ i \in 1..Len(sent) : sent[i].payload = id })
C20_TickOrder ==
  /\ \A g \in Gens : schedPc[g] = "enqueue" =>
       HasSelfEntry(schedItem[g]) /\ TimesEnqueued(schedItem[g]) = 0
  /\ \A id \in 1..MaxTicks :
       /\ TimesEnqueued(id) >= 1 => HasSelfEntry(id)
       /\ TimesAppended(id) <= 1
       /\ TimesEnqueued(id) <= 1
\* One payload was handed to sendData while a later one waits in the queue.
C20_Witness ==
  /\ \E i \in 1..Len(sent) : sent[i].payload = 1
  /\ \E i \in 1..Len(message_queue) : message_queue[i] = 2

\* C21: a broadcast thread or a queue processor thread ends only in a step
\* taken while the event is clear after a stop() call: a pass that raises, a
\* save that fails and a send that fails leave both loops running.
C21_LoopsEndOnlyOnSignal ==
  [][\A g \in Gens :
       /\ (Alive(schedPc[g]) /\ ~Alive(schedPc'[g])) => (running = "clear" /\ stops >= 1)
       /\ (Alive(procPc[g]) /\ ~Alive(procPc'[g])) => (running = "clear" /\ stops >= 1)]_vars
\* With the event set, a save has failed, a send has failed, a pass has just
\* raised, and both threads are alive.
C21_Witness ==
  /\ running = "set"
  /\ ioFailed
  /\ \E i \in 1..Len(sent) : ~sent[i].ok
  /\ \E g \in Gens : schedPc[g] = "cooldown" /\ Alive(procPc[g])

\* C22: once the event is clear, no broadcast thread enters a new tick, begins
\* another one-second sleep or begins the error cool-down sleep.
C22_PromptExitAfterClear ==
  [][running = "clear" =>
       \A g \in Gens :
         schedPc'[g] \in {"collecting", "sleeping", "cooldown", "cooldown_late"}
           => schedPc'[g] = schedPc[g]]_vars

\* C23: the payloads handed to sendData, in the order of the calls, are an
\* initial part of the payloads in the order they were put on the queue, and
\* no payload is handed to sendData twice, whether the call failed or not.
IsPrefix(a, b) == Len(a) <= Len(b) /\ \A i \in 1..Len(a) : a[i] = b[i]
SentPayloads == [i \in 1..Len(sent) |-> sent[i].payload]
C23_SentInEnqueueOrder ==
  /\ IsPrefix(SentPayloads, enqueued)
  /\ \A i, j \in 1..Len(sent) : sent[i].payload = sent[j].payload => i = j

\* C24: a save by the receiver whose open fails returns with the in-memory
\* sequence and the file as they were, and a save that completes leaves in the
\* file the whole in-memory sequence.
C24_SaveFailureRetainsMemory ==
  [][/\ (recvPc = "save_open" /\ recvPc' = "idle") =>
          (sensor_log_data' = sensor_log_data /\ logFile' = logFile)
     /\ (recvPc = "save_close" /\ recvPc' = "idle") =>
          logFile' = LogFile("valid", sensor_log_data')]_vars
\* After a write had failed, a second accepted packet was saved and the file
\* holds both entries.
C24_Witness ==
  /\ ioFailed
  /\ accepted = 2
  /\ recvPc = "idle"
  /\ Len(sensor_log_data) >= 2
  /\ logFile = LogFile("valid", sensor_log_data)

\* C25: while the receiver is in the middle of a save, after the open and
\* before the close, the file holds a valid JSON array.
C25_RewriteIsAtomic ==
  recvPc \in {"save_dump", "save_close"} => logFile.kind = "valid"

\* C26: with no start() or stop() call under way, the event is set exactly
\* when the plugin is running, that is when its broadcast thread is alive: not
\* before the first start() and not after stop().
C26_SignalSetIffRunning ==
  (phase = "constructed" /\ iface = "bound" /\ CallerIdle) =>
    (running = "set" <=> BroadcastThreadAlive)

\* C27: at most one broadcast thread and at most one queue processor thread
\* are alive.
C27_SingleWorkerPair ==
  /\ Cardinality({ g \in Gens : Alive(schedPc[g]) }) <= 1
  /\ Cardinality({ g \in Gens : Alive(procPc[g]) }) <= 1

\* C28: after construction every step leaves the in-memory log sequence as it
\* was or longer at its end: the earlier sequence is an initial part of the
\* later one.
C28_LogOnlyGrows ==
  [][phase = "constructed" => IsPrefix(sensor_log_data, sensor_log_data')]_vars
\* stop() has returned with a self entry and a remote entry in the log.
C28_Witness ==
  /\ stopPc = "returned"
  /\ EntriesOfType("self") # {}
  /\ EntriesOfType("remote") # {}

\* C29: the None sentinel is never handed to sendData and no queue processor
\* is about to send it, in the first run or after a second start().
C29_SentinelNeverSent ==
  /\ \A i \in 1..Len(sent) : sent[i].payload # 0
  /\ \A g \in Gens : procPc[g] = "send" => procItem[g] # 0
\* After two start() calls, stop() has put the sentinel, a queue processor has
\* taken it off the queue, and a payload was sent.
C29_Witness ==
  /\ starts = 2
  /\ running = "clear"
  /\ message_queue = << >>
  /\ Len(sent) >= 1

\* C30: with the queue processor scheduled fairly, a payload that is on the
\* queue while the event is set is eventually handed to sendData, unless the
\* event is cleared first.
InQueue(id) == \E i \in 1..Len(message_queue) : message_queue[i] = id
WasSent(id) == \E i \in 1..Len(sent) : sent[i].payload = id
C30_QueuedPayloadEventuallySent ==
  \A id \in 1..MaxTicks :
    (InQueue(id) /\ running = "set") ~> (WasSent(id) \/ running # "set")
\* Every payload the bound allows was sent while the event stayed set and no
\* stop() was called.
C30_Witness ==
  /\ running = "set"
  /\ stops = 0
  /\ \A id \in 1..MaxTicks : WasSent(id)

====
